---------------------------- MODULE Spec2Model ----------------------------
(***************************************************************************)
(* A model of src/train_pt.py: the training / evaluation driver for image  *)
(* classification networks (PyTorch port).                                 *)
(*                                                                         *)
(* The module-level functions of the script (main, prepare_model,          *)
(* prepare_trainer, _get_model, save_params, test, validate, train_net,    *)
(* train_epoch) are the operations.  A caller may invoke any of them       *)
(* (action Invoke); main chains them as lines 584-674 do.                  *)
(*                                                                         *)
(* Library behaviour the model relies on (PyTorch / torchvision / Python): *)
(*   - argparse.Namespace raises AttributeError for an attribute that no   *)
(*     add_argument call declared;                                         *)
(*   - torch.nn.Module (hence DataParallel) has no save_parameters and no  *)
(*     collect_params attribute (these are Gluon methods);                 *)
(*   - a torch loss value is a tensor: it has no asscalar method, and a    *)
(*     0-d tensor cannot be iterated;                                      *)
(*   - a dict lookup of a missing key raises KeyError, which an            *)
(*     "except ValueError" clause does not catch;                          *)
(*   - reading a local variable that no executed statement assigned raises *)
(*     UnboundLocalError.                                                  *)
(* The global name nn that line 532 reads is taken to be bound by one of   *)
(* the star imports of lines 19-22.                                        *)
(* Floating point numbers are modelled as exact rationals <<num, den>>.    *)
(***************************************************************************)
EXTENDS Integers, Sequences, FiniteSets, TLC

(***************************************************************************)
(* Bounds of the model.                                                    *)
(***************************************************************************)
MaxEpochs == 2
MaxBatches == 2
MaxBatchSize == 2

(***************************************************************************)
(* Exact rationals <<n, d>>, d > 0, in lowest terms.                       *)
(***************************************************************************)
Abs(x) == IF x < 0 THEN -x ELSE x

RECURSIVE GCD(_, _)
GCD(a, b) == IF b = 0 THEN a ELSE GCD(b, a % b)

RNorm(n, d) ==
    LET g == GCD(Abs(n), d) IN <<n \div g, d \div g>>

RInt(k) == <<k, 1>>

RAdd(a, b) == RNorm(a[1] * b[2] + b[1] * a[2], a[2] * b[2])

RSub(a, b) == RNorm(a[1] * b[2] - b[1] * a[2], a[2] * b[2])

RMulInt(a, k) == RNorm(a[1] * k, a[2])

RDivInt(a, k) == RNorm(a[1], a[2] * k)

RLess(a, b) == a[1] * b[2] < b[1] * a[2]

RLeq(a, b) == a[1] * b[2] <= b[1] * a[2]

(***************************************************************************)
(* Strings that the script inspects character-wise (paths) are sequences   *)
(* of one-character strings.                                               *)
(***************************************************************************)
RECURSIVE lstrip(_)
lstrip(s) == IF s # <<>> /\ Head(s) = " " THEN lstrip(Tail(s)) ELSE s

RECURSIVE rstrip(_)
rstrip(s) ==
    IF s # <<>> /\ s[Len(s)] = " " THEN rstrip(SubSeq(s, 1, Len(s) - 1)) ELSE s

\* str.strip(): leading and trailing blanks removed.
strip(s) == rstrip(lstrip(s))

\* Python truth value of a str: non-empty.
Truthy(s) == s # <<>>

(***************************************************************************)
(* Classifier outputs and labelled batches.                                *)
(***************************************************************************)
NumClasses == 6

Classes == 1..NumClasses

\* Score vectors a network may produce for one sample (scores distinct):
\* one ranks the classes 1, 2, ..., NumClasses, the other 2, NumClasses, ..., 3, 1.
Outputs ==
    { [c \in Classes |-> (NumClasses + 1 - c) * 10],
      [c \in Classes |-> IF c = 1 THEN 10
                         ELSE IF c = 2 THEN NumClasses * 10 ELSE (c - 1) * 10] }

Targets == {1, NumClasses}

\* A sample: the scores of the network and the true label.  The three kinds
\* are: label ranked first, label ranked second, label ranked last.
Samples ==
    { s \in [output : Outputs, target : Targets] :
        s.target = 1 => s.output[1] > s.output[2] }

\* The position of a sample's true label among its scores, best first.
Rank(sample) ==
    1 + Cardinality({c \in Classes : sample.output[c] > sample.output[sample.target]})

\* A batch as the data loader yields it: 1..MaxBatchSize samples, each with
\* the scores the network computes for it.  Nothing the script computes
\* depends on the order of the samples within a batch, so one order stands
\* for all of them.
Batches ==
    UNION { { b \in [1..n -> Samples] :
                \A j \in 1..(n - 1) : Rank(b[j]) <= Rank(b[j + 1]) } : n \in 1..MaxBatchSize }

ArgMax(scores, S) == CHOOSE c \in S : \A d \in S : scores[d] <= scores[c]

RECURSIVE TopKFrom(_, _, _)
TopKFrom(scores, S, k) ==
    IF k = 0 THEN <<>>
    ELSE LET c == ArgMax(scores, S)
         IN  <<c>> \o TopKFrom(scores, S \ {c}, k - 1)

\* tensor.topk(k, 1, True, True) for one row: the k best classes, best first.
topk(scores, k) == TopKFrom(scores, Classes, k)

SeqMax(s) == CHOOSE m \in {s[j] : j \in 1..Len(s)} : \A j \in 1..Len(s) : s[j] <= m

\* accuracy(output, target, topk): "precision@k" of one batch, one value per
\* k of ks, each correct_k * (100.0 / batch_size).
accuracy(batch, ks) ==
    LET maxk == SeqMax(ks)
        batch_size == Len(batch)
        pred == [n \in 1..batch_size |-> topk(batch[n].output, maxk)]
        correct_k(k) == Cardinality({ jn \in (1..k) \X (1..batch_size) :
                                        pred[jn[2]][jn[1]] = batch[jn[2]].target })
    IN  [x \in 1..Len(ks) |-> RNorm(correct_k(ks[x]) * 100, batch_size)]

(***************************************************************************)
(* class AverageMeter                                                      *)
(***************************************************************************)
AverageMeter_reset == [val |-> RInt(0), avg |-> RInt(0), sum |-> RInt(0), count |-> 0]

\* update as it would be with line 401 reading "self.sum += val".
AverageMeter_update_unweighted(m, val, n) ==
    LET s == RAdd(m.sum, val)
        c == m.count + n
    IN  [val |-> val, sum |-> s, count |-> c, avg |-> RDivInt(s, c)]

AverageMeter_update(m, val, n) ==
    LET s == RAdd(m.sum, RMulInt(val, n))
        c == m.count + n
    IN  [val |-> val, sum |-> s, count |-> c, avg |-> RDivInt(s, c)]

(***************************************************************************)
(* Exceptions: the type and the source line that raises.                   *)
(***************************************************************************)
NoExc == [type |-> "none", line |-> 0]

Raise(t, l) == [type |-> t, line |-> l]

(***************************************************************************)
(* Attributes of the library objects the script touches.                   *)
(***************************************************************************)
\* The attributes parse_args declares (lines 28-170) that the model uses.
NamespaceAttrs ==
    {"model", "use_pretrained", "resume", "evaluate", "num_epochs", "start_epoch",
     "optimizer_name", "log_interval", "save_interval", "save_dir"}

\* Methods of torch.nn.DataParallel / torch.nn.Module the script could call.
ModuleAttrs == {"eval", "train", "cuda", "parameters", "load_state_dict", "state_dict"}

\* Methods of a torch tensor relevant to line 493.
TensorAttrs == {"mean", "backward", "item", "float", "sum"}

\* Methods of class AverageMeter (lines 388-403).
AverageMeterAttrs == {"reset", "update"}

\* Attributes of torch.optim.SGD relevant to line 502.
OptimizerAttrs == {"zero_grad", "step", "load_state_dict", "state_dict", "param_groups"}

\* Names of torchvision.models.__dict__ (constructors); none accepts the
\* keyword argument 'classes'.
TorchvisionModels == {"squeezenet1_0", "squeezenet1_1", "resnet18", "alexnet", "vgg16"}

\* The registry of _get_model (lines 262-289).
slk_models ==
    {"squeezenet1_0", "squeezenet1_1",
     "mobilenet1_0", "mobilenet0_75", "mobilenet0_5", "mobilenet0_25",
     "fd_mobilenet1_0", "fd_mobilenet0_75", "fd_mobilenet0_5", "fd_mobilenet0_25",
     "shufflenet1_0_g1", "shufflenet1_0_g2", "shufflenet1_0_g3", "shufflenet1_0_g4",
     "shufflenet1_0_g8", "shufflenet0_5_g1", "shufflenet0_5_g2", "shufflenet0_5_g3",
     "shufflenet0_5_g4", "shufflenet0_5_g8", "shufflenet0_25_g1", "shufflenet0_25_g2",
     "shufflenet0_25_g3", "shufflenet0_25_g4", "shufflenet0_25_g8", "menet108_8x1_g3"}

(***************************************************************************)
(* Checkpoint files.  A file is a dict: a function from its keys.          *)
(***************************************************************************)
CheckpointKeys == {"state_dict", "optimizer", "epoch", "best_prec1"}

FullCheckpoint(k) ==
    [state_dict |-> "w_ckpt", optimizer |-> "o_ckpt", epoch |-> k, best_prec1 |-> 0]

\* A file holding weights only.
ParamsFile == [state_dict |-> "w_ckpt"]

\* The file systems a run may start from: path "a" holds nothing, a weights
\* file or a full checkpoint; path "b" never exists.
Disks ==
    { <<>> } \cup
    { (<<"a">> :> f) : f \in {ParamsFile} \cup {FullCheckpoint(k) : k \in 0..(MaxEpochs + 1)} }

isfile(d, path) == path \in DOMAIN d

(***************************************************************************)
(* _get_model (lines 261-299)                                              *)
(***************************************************************************)
\* models.__dict__[name](**kwargs) with kwargs = {pretrained, classes}, line 291.
upstream_call(name) ==
    IF name \notin TorchvisionModels THEN "KeyError" ELSE "TypeError"

get_model(name) ==
    LET r == upstream_call(name)
    IN  IF r = "returned" THEN [exc |-> NoExc, net |-> [arch |-> <<"torchvision", name>>]]
        ELSE IF r # "ValueError" THEN [exc |-> Raise(r, 291), net |-> <<>>]
        \* line 296: "name not in models" with models a module.
        ELSE [exc |-> Raise("TypeError", 296), net |-> <<>>]

(***************************************************************************)
(* prepare_model (lines 302-326)                                           *)
(***************************************************************************)
prepare_model(d, model_name, use_pretrained, pretrained_model_file_path) ==
    LET g == get_model(model_name)
    IN  IF g.exc # NoExc THEN [exc |-> g.exc, net |-> <<>>]
        ELSE IF ~Truthy(pretrained_model_file_path)
             THEN [exc |-> NoExc,
                   net |-> [arch |-> g.net.arch, weights |-> "w_init", steps |-> 0]]
        ELSE IF ~isfile(d, pretrained_model_file_path)
             THEN [exc |-> Raise("AssertionError", 321), net |-> <<>>]
        ELSE IF "state_dict" \notin DOMAIN d[pretrained_model_file_path]
             THEN [exc |-> Raise("KeyError", 324), net |-> <<>>]
        ELSE [exc |-> NoExc,
              net |-> [arch |-> g.net.arch,
                       weights |-> d[pretrained_model_file_path].state_dict,
                       steps |-> 0]]

(***************************************************************************)
(* prepare_trainer (lines 329-370)                                         *)
(***************************************************************************)
prepare_trainer(d, optimizer_name, pretrained_model_file_path) ==
    LET none == [optimizer |-> <<>>, start_epoch |-> 0, best_prec1 |-> 0]
        fail(t, l) == [exc |-> Raise(t, l), val |-> none]
    IN  IF optimizer_name \notin {"sgd", "nag"} THEN fail("Exception", 358)
        ELSE IF ~Truthy(pretrained_model_file_path)
             \* start_epoch and best_prec1 were never assigned.
             THEN fail("UnboundLocalError", 370)
        ELSE IF ~isfile(d, pretrained_model_file_path)
             THEN fail("FileNotFoundError", 361)
        ELSE LET checkpoint == d[pretrained_model_file_path]
             IN  IF "optimizer" \notin DOMAIN checkpoint THEN fail("KeyError", 362)
                 ELSE IF "epoch" \notin DOMAIN checkpoint THEN fail("KeyError", 363)
                 ELSE IF "best_prec1" \notin DOMAIN checkpoint THEN fail("KeyError", 364)
                 ELSE [exc |-> NoExc,
                       val |-> [optimizer |-> [name |-> optimizer_name,
                                               state |-> checkpoint.optimizer],
                                start_epoch |-> checkpoint.epoch,
                                best_prec1 |-> checkpoint.best_prec1]]

(***************************************************************************)
(* save_params (lines 383-385)                                             *)
(***************************************************************************)
\* net.save_parameters(file_path): net is a torch module.
save_params(d, file_path, n) ==
    IF "save_parameters" \notin ModuleAttrs
    THEN [exc |-> Raise("AttributeError", 385), disk |-> d]
    ELSE [exc |-> NoExc, disk |-> (file_path :> [state_dict |-> n.weights]) @@ d]

(***************************************************************************)
(* TrainLogParamSaver (common/train_log_param_saver.py): the checkpoint    *)
(* saver main constructs at lines 642-659.  It keeps the best value of the *)
(* metric params[acc_ind] and rolling lists of "last" and "best" files,    *)
(* and writes files through checkpoint_file_save_callback (save_params).   *)
(***************************************************************************)
None == <<>>

Digits == <<"0", "1", "2", "3", "4", "5", "6", "7", "8", "9">>

CheckpointPath(dir, kind, epoch1) == dir \o <<"/", kind, Digits[(epoch1 % 10) + 1]>>

TrainLogParamSaver(dir, save_interval, num_epochs) ==
    [last_checkpoint_dir_path |-> dir,
     save_interval |-> save_interval,
     num_epochs |-> num_epochs,
     acc_ind |-> 2,
     last_checkpoint_file_count |-> 2,
     best_checkpoint_file_count |-> 2,
     best_eval_metric_value |-> None,
     best_eval_metric_epoch |-> None,
     last_files |-> <<>>,
     best_files |-> <<>>]

\* Append path to a rolling list of at most count files; older files are
\* deleted from the disk.
Roll(files, d, path, count) ==
    LET all == Append(files, path)
        drop == IF Len(all) > count THEN Len(all) - count ELSE 0
        gone == {all[j] : j \in 1..drop}
    IN  [files |-> SubSeq(all, drop + 1, Len(all)),
         disk |-> [q \in (DOMAIN d) \ gone |-> d[q]]]

epoch_test_end_callback(s, d, epoch1, params, n) ==
    LET curr == params[s.acc_ind + 1]
        save_last == (epoch1 % s.save_interval = 0) \/ (epoch1 = s.num_epochs)
        lpath == CheckpointPath(s.last_checkpoint_dir_path, "l", epoch1)
        bpath == CheckpointPath(s.last_checkpoint_dir_path, "b", epoch1)
        w1 == IF save_last THEN save_params(d, lpath, n) ELSE [exc |-> NoExc, disk |-> d]
        r1 == IF save_last /\ w1.exc = NoExc
              THEN Roll(s.last_files, w1.disk, lpath, s.last_checkpoint_file_count)
              ELSE [files |-> s.last_files, disk |-> d]
        better == s.best_eval_metric_epoch = None \/ RLess(curr, s.best_eval_metric_value[1])
        w2 == IF better THEN save_params(r1.disk, bpath, n)
              ELSE [exc |-> NoExc, disk |-> r1.disk]
        r2 == IF better /\ w2.exc = NoExc
              THEN Roll(s.best_files, w2.disk, bpath, s.best_checkpoint_file_count)
              ELSE [files |-> s.best_files, disk |-> r1.disk]
    IN  IF w1.exc # NoExc THEN [exc |-> w1.exc, saver |-> s, disk |-> d]
        ELSE IF w2.exc # NoExc
             THEN [exc |-> w2.exc, saver |-> [s EXCEPT !.last_files = r1.files],
                   disk |-> r1.disk]
        ELSE [exc |-> NoExc,
              saver |-> [s EXCEPT !.last_files = r1.files,
                                  !.best_files = r2.files,
                                  !.best_eval_metric_value =
                                      IF better THEN <<curr>> ELSE @,
                                  !.best_eval_metric_epoch =
                                      IF better THEN <<epoch1>> ELSE @],
              disk |-> r2.disk]

(***************************************************************************)
(* main (lines 584-674), the parts between its calls.                      *)
(***************************************************************************)
\* Line 600 reads args.convert_to_mxnet.
main_600 ==
    IF "convert_to_mxnet" \notin NamespaceAttrs
    THEN [exc |-> Raise("AttributeError", 600), pc |-> "done"]
    ELSE [exc |-> NoExc, pc |-> "prepare_model"]

\* Lines 611-623: after prepare_model returned.
main_616(a) ==
    IF a.evaluate
    THEN IF ~(a.use_pretrained \/ Truthy(strip(a.resume)))
         THEN [exc |-> Raise("AssertionError", 617), pc |-> "done"]
         ELSE [exc |-> NoExc, pc |-> "test"]
    ELSE [exc |-> NoExc, pc |-> "prepare_trainer"]

\* Lines 641-661: the saver, or None.
main_641(a) ==
    IF Truthy(a.save_dir) /\ a.save_interval # 0
    THEN TrainLogParamSaver(a.save_dir, a.save_interval, a.num_epochs)
    ELSE None

(***************************************************************************)
(* The state.                                                              *)
(***************************************************************************)
VARIABLES
    pc,         \* the statement the program is at; "idle" before a call
    entry,      \* the function that was called: "main" or one of the others
    args,       \* the argparse namespace (the parameters of a direct call)
    disk,       \* the files: path -> dict
    exc,        \* the exception that ended the call, or NoExc
    net,        \* the network: [arch, weights, steps], None before it is built
    optimizer,  \* the optimizer, None before it is built
    pt_ret,     \* what prepare_trainer returned, None before
    lp_saver,   \* the TrainLogParamSaver, or None
    epoch,      \* train_net's loop variable (0-based)
    i,          \* train_epoch's loop variable: <<>> while unbound, else <<index>>
    acc_top1,   \* AverageMeter
    acc_top5,   \* AverageMeter
    data,       \* the batches the running pass over a data loader has consumed
    vret,       \* the call site validate returns to: "test", "pre" or "loop"
    err_val,    \* what validate last returned: <<err_top1, err_top5>>, None before
    train_ret,  \* what train_epoch last returned: <<err_top1_train, train_loss>>
    train_loss, \* train_epoch's accumulator
    events      \* what has happened, in order

vars == <<pc, entry, args, disk, exc, net, optimizer, pt_ret, lp_saver, epoch, i,
          acc_top1, acc_top5, data, vret, err_val, train_ret, train_loss, events>>

(***************************************************************************)
(* Command lines and call parameters.                                      *)
(***************************************************************************)
ModelNames == {"mobilenet1_0", "squeezenet1_0", "nosuchnet"}

ResumeArgs == { <<>>, <<" ">>, <<"a">>, <<" ", "a">>, <<"b">> }

SaveDirs == { <<>>, <<"d">> }

OptimizerNames == {"nag", "sgd", "adam"}

ArgsSet ==
    [model : ModelNames, use_pretrained : BOOLEAN, resume : ResumeArgs,
     evaluate : BOOLEAN, num_epochs : 0..MaxEpochs, start_epoch : 0..(MaxEpochs + 1),
     optimizer_name : OptimizerNames, log_interval : {0, 1},
     save_interval : 0..MaxEpochs, save_dir : SaveDirs]

ArgsDefault ==
    [model |-> "mobilenet1_0", use_pretrained |-> FALSE, resume |-> <<>>,
     evaluate |-> FALSE, num_epochs |-> MaxEpochs, start_epoch |-> 1,
     optimizer_name |-> "nag", log_interval |-> 1, save_interval |-> MaxEpochs,
     save_dir |-> <<>>]

\* The fields a call of f reads; the others stay at their defaults.
Reads(f) ==
    CASE f = "main" -> {"model", "use_pretrained", "resume", "evaluate", "num_epochs",
                        "start_epoch", "optimizer_name", "save_interval", "save_dir"}
      [] f = "prepare_model" -> {"model", "use_pretrained", "resume"}
      [] f = "prepare_trainer" -> {"optimizer_name", "resume"}
      [] f = "get_model" -> {"model"}
      [] f = "save_params" -> {"save_dir"}
      [] f = "test" -> {}
      \* log_interval is read at line 497 only, which no iteration reaches.
      \* and save_interval only by the saver, which save_dir alone turns on or off.
      [] f = "train_net" -> {"num_epochs", "start_epoch", "save_dir"}

ArgsFor(f) ==
    { a \in ArgsSet : \A k \in NamespaceAttrs \ Reads(f) : a[k] = ArgsDefault[k] }

\* The file systems a call of f may find: the functions that read no file
\* are called on the empty one.
DisksFor(f) ==
    IF f \in {"main", "prepare_model", "prepare_trainer"} THEN Disks ELSE { <<>> }

Entries ==
    {"main", "prepare_model", "prepare_trainer", "get_model", "save_params", "test",
     "train_net"}

\* A network as prepare_model builds it without a checkpoint.
FreshNet == [arch |-> "DataParallel", weights |-> "w_init", steps |-> 0]

FreshOptimizer == [name |-> "nag", state |-> "o_init"]

Init ==
    /\ pc = "idle"
    /\ entry = "none"
    /\ args = ArgsDefault
    /\ disk = <<>>
    /\ exc = NoExc
    /\ net = None
    /\ optimizer = None
    /\ pt_ret = None
    /\ lp_saver = None
    /\ epoch = 0
    /\ i = <<>>
    /\ acc_top1 = AverageMeter_reset
    /\ acc_top5 = AverageMeter_reset
    /\ data = <<>>
    /\ vret = "test"
    /\ err_val = None
    /\ train_ret = None
    /\ train_loss = RInt(0)
    /\ events = <<>>

Event(kind, epoch1) == [kind |-> kind, epoch |-> epoch1]

\* A completed validation pass and what it returned.
Validated(epoch1, r) == [kind |-> "validate", epoch |-> epoch1, err |-> r]

\* A call of main or of one of the module's functions.
Invoke ==
    /\ pc = "idle"
    /\ \E f \in Entries : \E a \in ArgsFor(f) : \E d \in DisksFor(f) :
         /\ pc' = f
         /\ entry' = f
         /\ args' = a
         /\ disk' = d
         /\ net' = IF f \in {"test", "train_net", "save_params"} THEN FreshNet ELSE None
         /\ optimizer' = IF f = "train_net" THEN FreshOptimizer ELSE None
         /\ lp_saver' = IF f = "train_net" THEN main_641(a) ELSE None
    /\ UNCHANGED <<exc, pt_ret, epoch, i, acc_top1, acc_top5, data, vret,
                   err_val, train_ret, train_loss, events>>

\* main, lines 585-601.
Run_main ==
    /\ pc = "main"
    /\ pc' = main_600.pc
    /\ exc' = main_600.exc
    /\ UNCHANGED <<entry, args, disk, net, optimizer, pt_ret, lp_saver, epoch, i,
                   acc_top1, acc_top5, data, vret, err_val, train_ret, train_loss,
                   events>>

Run_get_model ==
    /\ pc = "get_model"
    /\ LET r == get_model(args.model)
       IN  /\ exc' = r.exc
           /\ net' = r.net
    /\ pc' = "done"
    /\ UNCHANGED <<entry, args, disk, optimizer, pt_ret, lp_saver, epoch, i,
                   acc_top1, acc_top5, data, vret, err_val, train_ret, train_loss,
                   events>>

\* prepare_model, and lines 611-623 of main when main called it.
Run_prepare_model ==
    /\ pc = "prepare_model"
    /\ LET r == prepare_model(disk, args.model, args.use_pretrained, strip(args.resume))
           m == main_616(args)
       IN  /\ net' = r.net
           /\ exc' = IF r.exc # NoExc THEN r.exc
                     ELSE IF entry = "main" THEN m.exc ELSE NoExc
           /\ pc' = IF r.exc = NoExc /\ entry = "main" THEN m.pc ELSE "done"
    /\ UNCHANGED <<entry, args, disk, optimizer, pt_ret, lp_saver, epoch, i,
                   acc_top1, acc_top5, data, vret, err_val, train_ret, train_loss,
                   events>>

\* prepare_trainer, and lines 639-661 of main when main called it.
Run_prepare_trainer ==
    /\ pc = "prepare_trainer"
    /\ LET r == prepare_trainer(disk, args.optimizer_name, strip(args.resume))
           a == [args EXCEPT !.start_epoch = r.val.start_epoch]
       IN  /\ exc' = r.exc
           /\ IF r.exc # NoExc
              THEN /\ pc' = "done"
                   /\ UNCHANGED <<optimizer, pt_ret, args, lp_saver>>
              ELSE /\ optimizer' = r.val.optimizer
                   /\ pt_ret' = r.val
                   /\ IF entry = "main"
                      THEN /\ args' = a
                           /\ lp_saver' = main_641(a)
                           /\ pc' = "train_net"
                      ELSE /\ pc' = "done"
                           /\ UNCHANGED <<args, lp_saver>>
    /\ UNCHANGED <<entry, disk, net, epoch, i, acc_top1, acc_top5, data, vret,
                   err_val, train_ret, train_loss, events>>

\* save_params(file_path, net) for a "last" checkpoint file of epoch 1.
Run_save_params ==
    /\ pc = "save_params"
    /\ LET r == save_params(disk, CheckpointPath(args.save_dir, "l", 1), net)
       IN  /\ exc' = r.exc
           /\ disk' = r.disk
    /\ events' = Append(events, Event("save_params", 1))
    /\ pc' = "done"
    /\ UNCHANGED <<entry, args, net, optimizer, pt_ret, lp_saver, epoch, i,
                   acc_top1, acc_top5, data, vret, err_val, train_ret, train_loss>>

(***************************************************************************)
(* test (lines 444-460) and validate (lines 423-441)                       *)
(***************************************************************************)
Run_test ==
    /\ pc = "test"
    /\ acc_top1' = AverageMeter_reset
    /\ acc_top5' = AverageMeter_reset
    /\ vret' = "test"
    /\ pc' = "validate"
    /\ UNCHANGED <<entry, args, disk, exc, net, optimizer, pt_ret, lp_saver, epoch, i,
                   data, err_val, train_ret, train_loss, events>>

\* Lines 428-430.
validate_begin ==
    /\ pc = "validate"
    /\ acc_top1' = AverageMeter_reset
    /\ acc_top5' = AverageMeter_reset
    /\ data' = <<>>
    /\ pc' = "validate_loop"
    /\ UNCHANGED <<entry, args, disk, exc, net, optimizer, pt_ret, lp_saver, epoch, i,
                   vret, err_val, train_ret, train_loss, events>>

\* Lines 432-438: one batch of val_data.
validate_batch ==
    /\ pc = "validate_loop"
    /\ Len(data) < MaxBatches
    /\ \E b \in Batches :
         LET prec == accuracy(b, <<1, 5>>)
         IN  /\ acc_top1' = AverageMeter_update(acc_top1, prec[1], Len(b))
             /\ acc_top5' = AverageMeter_update(acc_top5, prec[2], Len(b))
             /\ data' = Append(data, b)
    /\ UNCHANGED <<pc, entry, args, disk, exc, net, optimizer, pt_ret, lp_saver,
                   epoch, i, vret, err_val, train_ret, train_loss, events>>

\* What validate returns (lines 439-441).
validate_result(m1, m5) == <<RSub(RInt(1), m1.avg), RSub(RInt(1), m5.avg)>>

\* Lines 439-441, val_data being exhausted, and the statements of the caller
\* that follow the call: test 457-460, train_net 544-546, train_net 568-576.
validate_end ==
    /\ pc = "validate_loop"
    /\ LET r == validate_result(acc_top1, acc_top5)
           cb == epoch_test_end_callback(lp_saver, disk, epoch + 1,
                                         <<r[1], train_ret[1], r[2], train_ret[2]>>, net)
       IN  /\ err_val' = r
           /\ CASE vret = "test" ->
                    /\ events' = Append(events, Validated(0, r))
                    /\ pc' = "done"
                    /\ UNCHANGED <<epoch, lp_saver, disk, exc>>
                [] vret = "pre" ->
                    /\ events' = Append(events, Validated(args.start_epoch - 1, r))
                    /\ pc' = "train_net_loop"
                    /\ UNCHANGED <<epoch, lp_saver, disk, exc>>
                [] vret = "loop" /\ lp_saver = None ->
                    /\ events' = Append(events, Validated(epoch + 1, r))
                    /\ pc' = "train_net_loop"
                    /\ epoch' = epoch + 1
                    /\ UNCHANGED <<lp_saver, disk, exc>>
                [] vret = "loop" /\ lp_saver # None ->
                    /\ events' = events \o <<Validated(epoch + 1, r),
                                             Event("callback", epoch + 1)>>
                    /\ lp_saver' = cb.saver
                    /\ disk' = cb.disk
                    /\ exc' = cb.exc
                    /\ pc' = IF cb.exc = NoExc THEN "train_net_loop" ELSE "done"
                    /\ epoch' = epoch + 1
    /\ UNCHANGED <<entry, args, net, optimizer, pt_ret, i, acc_top1, acc_top5, data,
                   vret, train_ret, train_loss>>

(***************************************************************************)
(* train_net (lines 518-581)                                               *)
(***************************************************************************)
\* Lines 529-546.
Run_train_net ==
    /\ pc = "train_net"
    /\ acc_top1' = AverageMeter_reset
    /\ acc_top5' = AverageMeter_reset
    /\ epoch' = args.start_epoch - 1
    /\ IF ~(args.start_epoch >= 1)
       THEN /\ exc' = Raise("AssertionError", 535)
            /\ pc' = "done"
            /\ UNCHANGED vret
       ELSE IF args.start_epoch > 1
       THEN /\ vret' = "pre"
            /\ pc' = "validate"
            /\ UNCHANGED exc
       ELSE /\ pc' = "train_net_loop"
            /\ UNCHANGED <<exc, vret>>
    /\ UNCHANGED <<entry, args, disk, net, optimizer, pt_ret, lp_saver, i, data,
                   err_val, train_ret, train_loss, events>>

\* Line 548: the next epoch of range(start_epoch1 - 1, num_epochs), or lines
\* 578-581 when the range is exhausted.
train_net_loop ==
    /\ pc = "train_net_loop"
    /\ IF epoch < args.num_epochs
       THEN /\ pc' = "train_epoch"
            /\ UNCHANGED events
       ELSE /\ pc' = "done"
            /\ events' = IF lp_saver # None
                         THEN Append(events, [kind |-> "best",
                                              epoch |-> 0,
                                              value |-> lp_saver.best_eval_metric_value,
                                              at |-> lp_saver.best_eval_metric_epoch])
                         ELSE events
    /\ UNCHANGED <<entry, args, disk, exc, net, optimizer, pt_ret, lp_saver, epoch, i,
                   acc_top1, acc_top5, data, vret, err_val, train_ret, train_loss>>

(***************************************************************************)
(* train_epoch (lines 463-515)                                             *)
(***************************************************************************)
\* The value of L(output, target) for a batch.  The criterion is a library
\* object; its value stands here as the number of top-1 misses of the batch.
L(b) == RInt(Cardinality({n \in 1..Len(b) : topk(b[n].output, 1)[1] # b[n].target}))

\* Lines 474-479 as they would be without the acc_top1.reset() of line 476.
train_epoch_begin_noreset ==
    /\ pc = "train_epoch"
    /\ train_loss' = RInt(0)
    /\ i' = <<>>
    /\ data' = <<>>
    /\ pc' = "train_epoch_loop"
    /\ UNCHANGED <<entry, args, disk, exc, net, optimizer, pt_ret, lp_saver, epoch,
                   acc_top1, acc_top5, vret, err_val, train_ret, events>>

\* Lines 474-479.
train_epoch_begin ==
    /\ pc = "train_epoch"
    /\ acc_top1' = AverageMeter_reset
    /\ train_loss' = RInt(0)
    /\ i' = <<>>
    /\ data' = <<>>
    /\ pc' = "train_epoch_loop"
    /\ UNCHANGED <<entry, args, disk, exc, net, optimizer, pt_ret, lp_saver, epoch,
                   acc_top5, vret, err_val, train_ret, events>>

\* The exception one iteration of lines 480-503 ends with, if any, after
\* the optimizer step of line 488; idx is the value of i.
train_epoch_raises(ep, idx, log_interval) ==
    IF ep = 0 /\ idx = 0 /\ "collect_params" \notin ModuleAttrs
    THEN Raise("AttributeError", 374)       \* calc_net_weight_count, from line 491
    ELSE IF "asscalar" \notin TensorAttrs
    THEN Raise("TypeError", 493)
    ELSE IF log_interval # 0 /\ (idx + 1) % log_interval = 0
    THEN IF "get" \notin AverageMeterAttrs
         THEN Raise("AttributeError", 498)
         ELSE IF "learning_rate" \notin OptimizerAttrs
         THEN Raise("AttributeError", 502)
         ELSE NoExc
    ELSE NoExc

\* Lines 480-503: one batch of train_data.
train_epoch_batch ==
    /\ pc = "train_epoch_loop"
    /\ Len(data) < MaxBatches
    /\ \E b \in Batches :
         LET idx == Len(data)
             e == train_epoch_raises(epoch, idx, args.log_interval)
             updated == e = NoExc \/ e.line \in {498, 502}
         IN  /\ i' = <<idx>>
             /\ data' = Append(data, b)
             /\ net' = [net EXCEPT !.steps = @ + 1]
             /\ events' = Append(events, Event("step", epoch + 1))
             /\ train_loss' = IF updated THEN RAdd(train_loss, L(b)) ELSE train_loss
             /\ acc_top1' = IF updated
                            THEN AverageMeter_update(acc_top1, accuracy(b, <<1>>)[1], Len(b))
                            ELSE acc_top1
             /\ exc' = e
             /\ pc' = IF e = NoExc THEN "train_epoch_loop" ELSE "done"
    /\ UNCHANGED <<entry, args, disk, optimizer, pt_ret, lp_saver, epoch, acc_top5,
                   vret, err_val, train_ret>>

\* Lines 505-515, train_data being exhausted, and the call of validate at
\* line 561 of train_net.
train_epoch_end ==
    /\ pc = "train_epoch_loop"
    /\ IF i = <<>>
       THEN /\ exc' = Raise("UnboundLocalError", 507)
            /\ pc' = "done"
            /\ UNCHANGED <<train_ret, vret, events>>
       ELSE /\ train_ret' = <<RSub(RInt(1), acc_top1.avg), RDivInt(train_loss, i[1] + 1)>>
            /\ events' = Append(events, Event("train", epoch + 1))
            /\ vret' = "loop"
            /\ pc' = "validate"
            /\ UNCHANGED exc
    /\ UNCHANGED <<entry, args, disk, net, optimizer, pt_ret, lp_saver, epoch, i,
                   acc_top1, acc_top5, data, err_val, train_loss>>

(***************************************************************************)
(* The specification.                                                      *)
(***************************************************************************)
Next ==
    \/ Invoke
    \/ Run_main
    \/ Run_get_model
    \/ Run_prepare_model
    \/ Run_prepare_trainer
    \/ Run_save_params
    \/ Run_test
    \/ validate_begin
    \/ validate_batch
    \/ validate_end
    \/ Run_train_net
    \/ train_net_loop
    \/ train_epoch_begin
    \/ train_epoch_batch
    \/ train_epoch_end

Spec == Init /\ [][Next]_vars

(***************************************************************************)
(* Properties.                                                             *)
(***************************************************************************)
Done == pc = "done"

\* The events of one kind, in order.
EventsOf(kind) == SelectSeq(events, LAMBDA e : e.kind = kind)

\* The epochs (1-based) whose training completed, in order.
TrainedEpochs == [j \in 1..Len(EventsOf("train")) |-> EventsOf("train")[j].epoch]

\* The sequence a, a+1, ..., b (empty when a > b).
Range(a, b) == [j \in 1..(IF b >= a THEN b - a + 1 ELSE 0) |-> a + j - 1]

\* The path --resume names, as main passes it on (line 608 and 638).
ResumePath == strip(args.resume)

\* --resume names a checkpoint file that holds all four keys.
ResumesFullCheckpoint ==
    /\ isfile(disk, ResumePath)
    /\ CheckpointKeys \subseteq DOMAIN disk[ResumePath]

\* The samples of a sequence of batches, as <<batch index, index in batch>>.
SamplesOf(d) ==
    { bn \in (1..Len(d)) \X (1..MaxBatchSize) : bn[2] <= Len(d[bn[1]]) }

\* The number of samples whose true label is not among the k best classes.
Misses(d, k) == Cardinality({ bn \in SamplesOf(d) : Rank(d[bn[1]][bn[2]]) > k })

\* C1: every checkpoint file the save callback writes holds 'state_dict',
\* 'optimizer', 'epoch' and 'best_prec1', so that after a call of the save
\* callback the file exists and resuming from it finds every key that
\* prepare_model and prepare_trainer read.
C1_SavedCheckpointRoundTrips ==
    (Done /\ entry = "save_params") =>
        LET path == CheckpointPath(args.save_dir, "l", 1)
        IN  /\ isfile(disk, path)
            /\ CheckpointKeys \subseteq DOMAIN disk[path]
            /\ prepare_trainer(disk, "nag", path).exc = NoExc

\* C2: without --resume, the start epoch obtained from prepare_trainer is 1,
\* and main trains the epochs 1, 2, ..., num_epochs in order, each once,
\* and terminates normally.
C2_NewRunStartsAtEpoch1 ==
    /\ (Done /\ entry = "prepare_trainer" /\ ~Truthy(ResumePath)
             /\ args.optimizer_name \in {"sgd", "nag"}) =>
          /\ exc = NoExc
          /\ pt_ret # None
          /\ pt_ret.start_epoch = 1
    /\ (Done /\ entry = "main" /\ ~args.evaluate /\ ~Truthy(ResumePath)
             /\ args.optimizer_name \in {"sgd", "nag"}) =>
          /\ exc = NoExc
          /\ TrainedEpochs = Range(1, args.num_epochs)

\* C3: resuming from a checkpoint that records epoch k >= 1, the optimizer
\* state, start epoch and best-metric value are the stored ones (the
\* --start-epoch flag is overridden by k), train_net trains exactly the
\* epochs k, ..., num_epochs in order, and the run terminates normally (with
\* no epoch trained when k > num_epochs).
C3_ResumeTrainsFromStoredEpoch ==
    /\ (Done /\ entry = "main" /\ ~args.evaluate /\ ResumesFullCheckpoint
             /\ disk[ResumePath].epoch >= 1 /\ args.optimizer_name \in {"sgd", "nag"}) =>
          /\ exc = NoExc
          /\ pt_ret # None
          /\ pt_ret.optimizer.state = disk[ResumePath].optimizer
          /\ pt_ret.best_prec1 = disk[ResumePath].best_prec1
          /\ args.start_epoch = disk[ResumePath].epoch
          /\ TrainedEpochs = Range(disk[ResumePath].epoch, args.num_epochs)
    /\ (Done /\ entry = "train_net" /\ args.start_epoch >= 1) =>
          /\ exc = NoExc
          /\ TrainedEpochs = Range(args.start_epoch, args.num_epochs)

\* C4: in evaluate mode without --use-pretrained and with a blank --resume,
\* main fails the assertion of line 617 and runs no validation pass; and a
\* non-empty --resume path that is no existing file fails the assertion of
\* line 321 in prepare_model before any state is loaded.
C4_EvaluateNeedsCheckpoint ==
    /\ (Done /\ entry = "main" /\ args.evaluate /\ ~args.use_pretrained
             /\ ~Truthy(ResumePath)) =>
          /\ exc = Raise("AssertionError", 617)
          /\ EventsOf("validate") = <<>>
    /\ (Done /\ entry \in {"main", "prepare_model"} /\ Truthy(ResumePath)
             /\ ~isfile(disk, ResumePath)) =>
          /\ exc = Raise("AssertionError", 321)
          /\ net = None

\* The checkpoint files of one kind ("l" last, "b" best) on the disk.
CheckpointFiles(kind) ==
    { q \in DOMAIN disk : Len(q) >= 3 /\ q[Len(q) - 1] = kind /\ q[Len(q) - 2] = "/" }

\* A training run that was asked for at least one epoch has ended.
TrainingRunEnded ==
    Done /\ entry = "train_net" /\ args.start_epoch >= 1
         /\ args.start_epoch <= args.num_epochs

\* C5: the best model is always saved: when a training run of at least one
\* epoch has ended, a checkpoint of the best epoch is on the disk, whatever
\* --save-interval (0 included) and --save-dir are.
C5_BestModelAlwaysSaved ==
    TrainingRunEnded => CheckpointFiles("b") # {}

\* C6: in train_net every epoch whose training began is followed by exactly
\* one validation pass of that epoch and then, with a saver, by exactly one
\* call of epoch_test_end_callback with epoch1 = that epoch, before the next
\* epoch begins: training, validation and callback events alternate with
\* gap-free increasing epoch numbers.
C6_EpochThenValidateThenCallback ==
    (Done /\ entry = "train_net") =>
        \A j \in 1..Len(events) :
            events[j].kind = "step" =>
                /\ \E l \in (j + 1)..Len(events) :
                       events[l].kind = "validate" /\ events[l].epoch = events[j].epoch
                /\ lp_saver # None =>
                       \E l \in (j + 1)..Len(events) :
                           events[l] = Event("callback", events[j].epoch)

\* The top-5 validation errors of the epochs of the training loop.
LoopTop5 ==
    { events[j].err[2] : j \in { l \in 1..Len(events) :
                                   /\ events[l].kind = "validate"
                                   /\ events[l].epoch >= args.start_epoch } }

\* C7: at most 2 'last' and at most 2 'best' checkpoint files exist, and at
\* the end of a training run with a saver the value reported as 'Best
\* err-top5' is the least top-5 validation error (params[2]) over the epochs
\* of the run.
C7_RollingRetentionAndBest ==
    /\ Cardinality(CheckpointFiles("l")) <= 2
    /\ Cardinality(CheckpointFiles("b")) <= 2
    /\ (TrainingRunEnded /\ lp_saver # None) =>
          \E j \in 1..Len(events) :
              /\ events[j].kind = "best"
              /\ events[j].value # None
              /\ events[j].value[1] \in LoopTop5
              /\ \A v \in LoopTop5 : RLeq(events[j].value[1], v)

\* validate has returned and data still holds the batches of its pass.
ValidateReturned ==
    /\ err_val # None
    /\ pc = "train_net_loop" \/ (Done /\ entry = "test")

\* C8: the errors validate returns are fractions: the top-k error equals
\* (number of samples whose true label is not among the k best classes) /
\* (number of samples), hence lies in [0, 1].
C8_ValidateReturnsErrorFractions ==
    (ValidateReturned /\ SamplesOf(data) # {}) =>
        LET N == Cardinality(SamplesOf(data))
        IN  /\ err_val[1] = RNorm(Misses(data, 1), N)
            /\ err_val[2] = RNorm(Misses(data, 5), N)
            /\ RLeq(RInt(0), err_val[1]) /\ RLeq(err_val[1], RInt(1))
            /\ RLeq(RInt(0), err_val[2]) /\ RLeq(err_val[2], RInt(1))

\* C9: _get_model returns the network of the registry entry for every name
\* of slk_models, and raises ValueError for a name found in no registry.
C9_GetModelResolvesRegistry ==
    (Done /\ entry = "get_model") =>
        /\ args.model \in slk_models => (exc = NoExc /\ net # None)
        /\ args.model \notin (slk_models \cup TorchvisionModels) =>
              exc.type = "ValueError"

\* C10: in evaluate mode with a checkpoint supplied, main performs exactly
\* one validation pass, no optimizer step, builds no optimizer and no
\* saver, and writes no checkpoint file.
C10_EvaluateOnlyEvaluates ==
    (Done /\ entry = "main" /\ args.evaluate /\ ResumesFullCheckpoint) =>
        /\ Len(EventsOf("validate")) = 1
        /\ EventsOf("step") = <<>>
        /\ optimizer = None
        /\ lp_saver = None
        /\ DOMAIN disk = {ResumePath}

\* The value passed to the meter of the top-k precision for batch b: the
\* percentage of the samples of b whose true label is among the k best
\* classes.
PassedVal(b, k) ==
    RNorm(100 * Cardinality({ n \in 1..Len(b) : Rank(b[n]) <= k }), Len(b))

\* The sum of val * n over the update calls of a pass over d.
RECURSIVE WeightedSum(_, _)
WeightedSum(d, k) ==
    IF d = <<>> THEN RInt(0)
    ELSE RAdd(WeightedSum(SubSeq(d, 1, Len(d) - 1), k),
              RMulInt(PassedVal(d[Len(d)], k), Len(d[Len(d)])))

\* The percentage of the samples of d whose true label is among the k best
\* classes, over the samples taken one by one (no batches).
PercentHit(d, k) ==
    RNorm(100 * (Cardinality(SamplesOf(d)) - Misses(d, k)), Cardinality(SamplesOf(d)))

\* Meter m holds exactly the statistics of the pass over d.
MeterHolds(m, d, k) ==
    /\ m.count = Cardinality(SamplesOf(d))
    /\ m.sum = WeightedSum(d, k)
    /\ d = <<>> => (m.val = RInt(0) /\ m.avg = RInt(0) /\ m.sum = RInt(0) /\ m.count = 0)
    /\ d # <<>> =>
          /\ m.val = PassedVal(d[Len(d)], k)
          /\ m.avg[1] * m.count * m.sum[2] = m.sum[1] * m.avg[2]
          /\ m.avg = PercentHit(d, k)

\* C11: after reset() and any sequence of update(val, n) calls, count is the
\* sum of the n, sum the sum of val * n, avg = sum / count and val the last
\* value passed; after reset() alone all four fields are 0; so avg is the
\* sample-weighted mean, the same however the samples are split into batches.
C11_AverageMeterInvariant ==
    /\ (pc = "validate_loop" \/ ValidateReturned) =>
          /\ MeterHolds(acc_top1, data, 1)
          /\ MeterHolds(acc_top5, data, 5)
    /\ (pc = "train_epoch_loop" /\ data = <<>>) => acc_top1 = AverageMeter_reset

\* Two batches of different sizes and different precisions have been passed.
C11_Witness ==
    /\ pc = "validate_loop"
    /\ Len(data) = 2
    /\ Len(data[1]) # Len(data[2])
    /\ PassedVal(data[1], 1) # PassedVal(data[2], 1)
    /\ acc_top1.avg \notin {RInt(0), RInt(100)}

\* The errors validate computes from the batches of d alone.
ErrorsOf(d) ==
    IF d = <<>> THEN <<RInt(1), RInt(1)>>
    ELSE <<RSub(RInt(1), PercentHit(d, 1)), RSub(RInt(1), PercentHit(d, 5))>>

=============================================================================
